---------------------------- MODULE Spec2Model ----------------------------
(***************************************************************************)
(* Model of two components of the repository:                              *)
(*                                                                         *)
(*   - preprocessing/resize.py, resize_patient_numba: the resampling of    *)
(*     one scan into a caller-owned buffer (lines 14-39);                  *)
(*   - models/tensorflow/architectures/resnet.py, TFResNet: the graph      *)
(*     assembled by _build out of conv_block and identity_block.           *)
(*                                                                         *)
(* Arrays are records [shape, data]; data maps 0-based index tuples to     *)
(* values.  Values and scale factors are exact rationals <<n, d>> in       *)
(* lowest terms; a factor with d = 0 is numpy's inf (<<1, 0>>) or nan      *)
(* (<<0, 0>>).  With the small extents used here every float64 operation   *)
(* of the code that decides a branch (a * (d / a) rounded, i * zoom + 0.5  *)
(* floored) gives the same integer as the exact computation.               *)
(*                                                                         *)
(* The interpolation is computed for order 0 (nearest) and order 1         *)
(* (linear).  Orders 2..5 run a spline prefilter with irrational poles in  *)
(* floating point; their values are outside this model.  Both arrays hold  *)
(* values of the same floating dtype.                                      *)
(***************************************************************************)
EXTENDS Integers, Sequences, FiniteSets, TLC

(* ------------------------------ bounds --------------------------------- *)

\* largest extent of an axis in the rank-3 specifications
MaxDim == 2

\* largest extent of an axis when ranks other than 3 are explored
MaxRankDim == 2

\* largest rank explored
MaxRank == 4

\* number of concurrently running resample calls
NumWorkers == 2

\* largest num_targets of the network configuration
MaxTargets == 3

Workers == 1 .. NumWorkers

(* ----------------------------- rationals ------------------------------- *)

Abs(n) == IF n < 0 THEN -n ELSE n

RECURSIVE Gcd(_, _)
Gcd(a, b) == IF b = 0 THEN a ELSE Gcd(b, a % b)

\* lowest terms, positive denominator
Norm(n, d) ==
    LET g == Gcd(Abs(n), Abs(d))
        s == IF d < 0 THEN -1 ELSE 1
    IN  <<(s * n) \div g, (s * d) \div g>>

Inf == <<1, 0>>
NaN == <<0, 0>>

IsFinite(q) == q[2] # 0

QInt(n) == <<n, 1>>

QAdd(p, q) == Norm(p[1] * q[2] + q[1] * p[2], p[2] * q[2])

QMul(p, q) == Norm(p[1] * q[1], p[2] * q[2])

QSub(p, q) == QAdd(p, <<-q[1], q[2]>>)

QFloor(q) == q[1] \div q[2]

(* ------------------------------ arrays --------------------------------- *)

RECURSIVE SeqMax(_)
SeqMax(s) ==
    IF s = <<>> THEN 0
    ELSE LET m == SeqMax(Tail(s)) IN IF Head(s) > m THEN Head(s) ELSE m

\* the index tuples of an array of the given shape (0-based per axis)
Indices(shape) ==
    {i \in [1 .. Len(shape) -> 0 .. (SeqMax(shape) - 1)] :
        \A a \in 1 .. Len(shape) : i[a] < shape[a]}

\* position of an index in C order
RECURSIVE Linear(_, _, _)
Linear(idx, shape, a) ==
    IF a = 0 THEN 0
    ELSE Linear(idx, shape, a - 1) * shape[a] + idx[a]

\* fillings of an array: one value everywhere, or the C-order position
ConstFill(k) == [kind |-> "const", k |-> k]
RampFill == [kind |-> "ramp", k |-> 0]

MkArray(shape, fill) ==
    [shape |-> shape,
     data  |-> [i \in Indices(shape) |->
                  IF fill.kind = "ramp"
                  THEN <<Linear(i, shape, Len(shape)), 1>>
                  ELSE <<fill.k, 1>>]]

NoArray == [shape |-> <<>>, data |-> <<>>]

\* all shapes of rank r with extents lo..hi
Shapes(r, lo, hi) == [1 .. r -> lo .. hi]

(* ------------------- resize_patient_numba: line 32 --------------------- *)

\* numpy true division of two integers: x/0 is inf, 0/0 is nan (a warning,
\* not an exception)
\* a faulty variant of TrueDivide: a guarded division that yields 0 for x/0
TrueDivideGuarded(o, p) ==
    IF p = 0 THEN <<0, 1>> ELSE Norm(o, p)

TrueDivide(o, p) ==
    IF p = 0 THEN (IF o = 0 THEN NaN ELSE Inf) ELSE Norm(o, p)

\* np.array(out_patient.shape) / np.array(patient.shape): two 1-d arrays,
\* broadcast when one of them has length 1, ValueError when the lengths
\* differ otherwise
ScaleFactor(oshape, pshape) ==
    LET lo == Len(oshape)
        lp == Len(pshape)
    IN  IF lo = lp
        THEN [err |-> "", val |-> [a \in 1 .. lo |-> TrueDivide(oshape[a], pshape[a])]]
        ELSE IF lo = 1
        THEN [err |-> "", val |-> [a \in 1 .. lp |-> TrueDivide(oshape[1], pshape[a])]]
        ELSE IF lp = 1
        THEN [err |-> "", val |-> [a \in 1 .. lo |-> TrueDivide(oshape[a], pshape[1])]]
        ELSE [err |-> "ValueError", val |-> <<>>]

(* ---------------- scipy.ndimage zoom as called on line 35 -------------- *)

\* ii * jj for an extent ii and a factor jj
ExtentTimes(ii, jj) ==
    IF jj = NaN THEN NaN
    ELSE IF jj = Inf THEN (IF ii = 0 THEN NaN ELSE Inf)
    ELSE Norm(ii * jj[1], jj[2])

\* round(x) of a finite x, ties to the even integer
Round(q) ==
    LET f == QFloor(q)
        r == 2 * (q[1] - f * q[2])
    IN  IF r < q[2] THEN f
        ELSE IF r > q[2] THEN f + 1
        ELSE IF f % 2 = 0 THEN f ELSE f + 1

\* step between source coordinates of neighbouring output elements:
\* (in - 1) / (out - 1), and 1 where out - 1 = 0
ZoomCoef(in, out) ==
    IF out - 1 # 0 THEN Norm(in - 1, out - 1) ELSE <<1, 1>>

\* source coordinate of output index i along each axis
Coords(ishape, oshape, i) ==
    [a \in 1 .. Len(oshape) |-> QMul(<<i[a], 1>>, ZoomCoef(ishape[a], oshape[a]))]

\* order 0: the element nearest to the coordinate
NearestIndex(cc) == [a \in 1 .. Len(cc) |-> QFloor(QAdd(cc[a], <<1, 2>>))]

\* order 1: linear interpolation, axis by axis; axes before a are fixed
\* at the integer positions in prefix
RECURSIVE Linear1(_, _, _, _)
Linear1(input, cc, a, prefix) ==
    IF a > Len(cc) THEN input.data[prefix]
    ELSE LET f == QFloor(cc[a])
             t == QSub(cc[a], <<f, 1>>)
         IN  IF t = <<0, 1>>
             THEN Linear1(input, cc, a + 1, Append(prefix, f))
             ELSE QAdd(QMul(QSub(<<1, 1>>, t),
                            Linear1(input, cc, a + 1, Append(prefix, f))),
                       QMul(t, Linear1(input, cc, a + 1, Append(prefix, f + 1))))

\* the zeros array zoom allocates for its result (a faulty variant of ZoomData:
\* the interpolation is never run on it)
ZoomDataUnfilled(input, oshape, order) ==
    [i \in Indices(oshape) |-> <<0, 1>>]

\* the interpolated values of the result
ZoomData(input, oshape, order) ==
    [i \in Indices(oshape) |->
        LET cc == Coords(input.shape, oshape, i)
        IN  CASE order = 0 -> input.data[NearestIndex(cc)]
              [] order = 1 -> Linear1(input, cc, 1, <<>>)]

Zoom(input, zoom, order) ==
    LET n     == Len(input.shape)
        prod  == [a \in 1 .. n |-> ExtentTimes(input.shape[a], zoom[a])]
        Fail(e) == [err |-> e, arr |-> NoArray]
    IN  IF order < 0 \/ order > 5 THEN Fail("RuntimeError")
        ELSE IF n < 1 THEN Fail("RuntimeError")
        ELSE IF Len(zoom) # n THEN Fail("RuntimeError")
        ELSE IF \E a \in 1 .. n : prod[a] = NaN THEN Fail("ValueError")
        ELSE IF \E a \in 1 .. n : prod[a] = Inf THEN Fail("OverflowError")
        ELSE LET oshape == [a \in 1 .. n |-> Round(prod[a])]
             IN  [err |-> "",
                  arr |-> [shape |-> oshape,
                           data  |-> ZoomData(input, oshape, order)]]

(* ------------- out_patient[:, :, :] = value, line 35 ------------------- *)

\* value's shape broadcasts to the buffer's shape
Broadcasts(vshape, oshape) ==
    LET lv == Len(vshape)
        lo == Len(oshape)
    IN  \A j \in 1 .. lv :
            LET a == j + lo - lv
            IN  IF a < 1 THEN vshape[j] = 1
                ELSE vshape[j] = 1 \/ vshape[j] = oshape[a]

\* the element of value that lands at index i of the buffer
ValueIndex(vshape, oshape, i) ==
    LET lv == Len(vshape)
        lo == Len(oshape)
    IN  [j \in 1 .. lv |->
            LET a == j + lo - lv
            IN  IF a < 1 \/ vshape[j] = 1 THEN 0 ELSE i[a]]

\* a faulty variant of SetItem: the assignment written as out_patient[0, :, :] = ...:
\* only the first plane of the buffer is stored
SetItemFirstPlane(out, value) ==
    [err     |-> "",
     arr     |-> [shape |-> out.shape,
                  data  |-> [i \in Indices(out.shape) |->
                               IF i[1] = 0
                               THEN value.data[ValueIndex(value.shape, out.shape, i)]
                               ELSE out.data[i]]],
     written |-> {i \in Indices(out.shape) : i[1] = 0}]

\* three slices index an array of rank >= 3 (IndexError below that); the
\* value must broadcast to the buffer (ValueError otherwise); the check
\* precedes the copy, the buffer keeps its shape and every element is stored
SetItem(out, value) ==
    IF Len(out.shape) < 3
    THEN [err |-> "IndexError", arr |-> out, written |-> {}]
    ELSE IF ~Broadcasts(value.shape, out.shape)
    THEN [err |-> "ValueError", arr |-> out, written |-> {}]
    ELSE [err     |-> "",
          arr     |-> [shape |-> out.shape,
                       data  |-> [i \in Indices(out.shape) |->
                                    value.data[ValueIndex(value.shape, out.shape, i)]]],
          written |-> Indices(out.shape)]

(* ------------------------------- state --------------------------------- *)

VARIABLES
    pc,          \* per call: "idle", "scale", "zoom", "setitem", "return", "done", "raised"
    patient,     \* per call: the source array (argument patient)
    out_patient, \* per call: the caller's buffer (argument out_patient)
    res,         \* per call: the accumulator (argument res)
    order,       \* per call: argument order
    res_factor,  \* per call: the local res_factor, <<>> before line 32
    zoomed,      \* per call: the array zoom returned, NoArray before
    ret,         \* per call: the returned pair, <<>> before the return
    err,         \* per call: the exception raised, "" when none
    raised_at,   \* per call: the step that raised, "" when none
    written,     \* per call: the indices of the buffer stored so far
    out0,        \* per call: the buffer as it was when the call began
    net          \* the graph under construction by TFResNet._build

rvars == <<pc, patient, out_patient, res, order, res_factor, zoomed, ret,
           err, raised_at, written, out0>>

vars == <<pc, patient, out_patient, res, order, res_factor, zoomed, ret,
          err, raised_at, written, out0, net>>

\* accumulators: None, a number, a collection
NoneAcc == [kind |-> "None", items |-> <<>>]
NumberAcc == [kind |-> "number", items |-> <<7>>]
ListAcc == [kind |-> "list", items |-> <<1, 2>>]
Accumulators == {NoneAcc, NumberAcc, ListAcc}

\* orders handed to a call: the two whose values are modelled and one
\* on each side of the supported range 0..5
Orders == {-1, 0, 1, 6}

PatientFills == {ConstFill(0), ConstFill(3), RampFill}

\* what the caller left in the buffer
BufferFill == ConstFill(9)

\* a call that has not been made
IdleCall ==
    [patient |-> NoArray, out |-> NoArray, res |-> NoneAcc, order |-> 3]

\* the arguments of one call
Call(pshape, fill, oshape, acc, ord) ==
    [patient |-> MkArray(pshape, fill), out |-> MkArray(oshape, BufferFill),
     res |-> acc, order |-> ord]

\* the state in which the calls c[w] are about to run (idle ones apart)
Begin(c, idle) ==
    /\ pc = [w \in Workers |-> IF w \in idle THEN "idle" ELSE "scale"]
    /\ patient = [w \in Workers |-> c[w].patient]
    /\ out_patient = [w \in Workers |-> c[w].out]
    /\ out0 = [w \in Workers |-> c[w].out]
    /\ res = [w \in Workers |-> c[w].res]
    /\ order = [w \in Workers |-> c[w].order]
    /\ res_factor = [w \in Workers |-> <<>>]
    /\ zoomed = [w \in Workers |-> NoArray]
    /\ ret = [w \in Workers |-> <<>>]
    /\ err = [w \in Workers |-> ""]
    /\ raised_at = [w \in Workers |-> ""]
    /\ written = [w \in Workers |-> {}]

\* no graph is being built
NetIdle ==
    [pc |-> "idle", k |-> 0, num_targets |-> 0, dropout_rate |-> 0,
     input |-> <<>>, y_true |-> <<>>, x |-> <<>>, z |-> 0,
     blocks |-> <<>>, dropouts |-> <<>>, attrs |-> {}, err |-> ""]

(* --------------------- resize_patient_numba, by step ------------------- *)

Raise(w, step, e) ==
    /\ pc' = [pc EXCEPT ![w] = "raised"]
    /\ err' = [err EXCEPT ![w] = e]
    /\ raised_at' = [raised_at EXCEPT ![w] = step]

\* line 32
ComputeScale(w) ==
    /\ pc[w] = "scale"
    /\ LET r == ScaleFactor(out_patient[w].shape, patient[w].shape)
       IN  IF r.err # ""
           THEN Raise(w, "scale", r.err) /\ UNCHANGED res_factor
           ELSE /\ res_factor' = [res_factor EXCEPT ![w] = r.val]
                /\ pc' = [pc EXCEPT ![w] = "zoom"]
                /\ UNCHANGED <<err, raised_at>>
    /\ UNCHANGED <<patient, out_patient, res, order, zoomed, ret, written, out0, net>>

\* a faulty variant of FactorOf: res_factor kept in one module-level slot
FactorOfShared(w) == res_factor[1]

\* the local res_factor read on line 35
FactorOf(w) == res_factor[w]

\* line 35, right-hand side
CallZoom(w) ==
    /\ pc[w] = "zoom"
    /\ LET r == Zoom(patient[w], FactorOf(w), order[w])
       IN  IF r.err # ""
           THEN Raise(w, "zoom", r.err) /\ UNCHANGED zoomed
           ELSE /\ zoomed' = [zoomed EXCEPT ![w] = r.arr]
                /\ pc' = [pc EXCEPT ![w] = "setitem"]
                /\ UNCHANGED <<err, raised_at>>
    /\ UNCHANGED <<patient, out_patient, res, order, res_factor, ret, written, out0, net>>

\* line 35, the slice assignment
StoreResult(w) ==
    /\ pc[w] = "setitem"
    /\ LET r == SetItem(out_patient[w], zoomed[w])
       IN  /\ out_patient' = [out_patient EXCEPT ![w] = r.arr]
           /\ written' = [written EXCEPT ![w] = r.written]
           /\ IF r.err # ""
              THEN Raise(w, "setitem", r.err)
              ELSE /\ pc' = [pc EXCEPT ![w] = "return"]
                   /\ UNCHANGED <<err, raised_at>>
    /\ UNCHANGED <<patient, res, order, res_factor, zoomed, ret, out0, net>>

\* a faulty variant of ReturnValue: the source's shape is reported
ReturnValueSourceShape(w) == <<res[w], patient[w].shape>>

\* a faulty variant of ReturnValue: a fresh None is returned in place of res
ReturnValueDropsRes(w) == <<NoneAcc, out_patient[w].shape>>

\* line 39
ReturnValue(w) == <<res[w], out_patient[w].shape>>

Return(w) ==
    /\ pc[w] = "return"
    /\ ret' = [ret EXCEPT ![w] = ReturnValue(w)]
    /\ pc' = [pc EXCEPT ![w] = "done"]
    /\ UNCHANGED <<patient, out_patient, res, order, res_factor, zoomed,
                   err, raised_at, written, out0, net>>

Step(w) == ComputeScale(w) \/ CallZoom(w) \/ StoreResult(w) \/ Return(w)

(* ------------------------- one call, rank 3 ---------------------------- *)

Init ==
    /\ \E ps \in Shapes(3, 0, MaxDim), f \in PatientFills,
          os \in Shapes(3, 1, MaxDim), acc \in Accumulators, ord \in Orders :
          Begin([w \in Workers |->
                   IF w = 1 THEN Call(ps, f, os, acc, ord) ELSE IdleCall],
                Workers \ {1})
    /\ net = NetIdle

Next == Step(1)

Spec == Init /\ [][Next]_vars

(* ----------------------- ranks other than 3 ---------------------------- *)

RankOrders == {0, 1}

InitRank ==
    /\ \E rp \in 1 .. MaxRank, ro \in 1 .. MaxRank :
         \E ps \in Shapes(rp, 1, MaxRankDim), os \in Shapes(ro, 1, MaxRankDim),
            ord \in RankOrders :
            Begin([w \in Workers |->
                     IF w = 1 THEN Call(ps, RampFill, os, NoneAcc, ord) ELSE IdleCall],
                  Workers \ {1})
    /\ net = NetIdle

SpecRank == InitRank /\ [][Next]_vars

(* -------------------------- concurrent calls --------------------------- *)

\* the calls a worker may be handed
ConcCalls ==
    {Call(ps, RampFill, os, ListAcc, ord) :
        ps \in {<<2, 1, 1>>, <<1, 2, 1>>, <<0, 1, 1>>},
        os \in {<<3, 1, 1>>, <<2, 2, 1>>},
        ord \in {0, 1}}

InitConc ==
    /\ \E c \in [Workers -> ConcCalls] : Begin(c, {})
    /\ net = NetIdle

NextConc == \E w \in Workers : Step(w)

SpecConc == InitConc /\ [][NextConc]_vars

\* lines 32-39 run from beginning to end on the arguments of one call
RunAlone(c) ==
    LET s == ScaleFactor(c.out.shape, c.patient.shape)
        z == Zoom(c.patient, s.val, c.order)
        a == SetItem(c.out, z.arr)
    IN  IF s.err # "" THEN [pc |-> "raised", err |-> s.err, out |-> c.out, ret |-> <<>>]
        ELSE IF z.err # "" THEN [pc |-> "raised", err |-> z.err, out |-> c.out, ret |-> <<>>]
        ELSE IF a.err # "" THEN [pc |-> "raised", err |-> a.err, out |-> a.arr, ret |-> <<>>]
        ELSE [pc |-> "done", err |-> "", out |-> a.arr, ret |-> <<c.res, a.arr.shape>>]

(* --------------------------- TFResNet ---------------------------------- *)
\* Tensors are their shapes without the batch axis: <<depth, height,
\* width, channels>>.

CeilDiv(n, d) == (n + d - 1) \div d

\* the fused convolution: padding 'same' divides each spatial extent by
\* its stride, rounding up; the channel count becomes filters
BnConv3d(t, filters, kernel, strides) ==
    <<CeilDiv(t[1], strides[1]), CeilDiv(t[2], strides[2]),
      CeilDiv(t[3], strides[3]), filters>>

\* tf.layers.max_pooling3d, default padding 'valid'
MaxPooling3d(t, pool, strides) ==
    <<(t[1] - pool[1]) \div strides[1] + 1, (t[2] - pool[2]) \div strides[2] + 1,
      (t[3] - pool[3]) \div strides[3] + 1, t[4]>>

\* tf.add: the shapes must agree axis by axis, an extent of 1 stretching
TfAdd(a, b) ==
    IF \A i \in 1 .. 4 : a[i] = b[i] \/ a[i] = 1 \/ b[i] = 1
    THEN [err |-> "", shape |-> [i \in 1 .. 4 |-> IF a[i] = 1 THEN b[i] ELSE a[i]]]
    ELSE [err |-> "ValueError", shape |-> <<>>]

Ones == <<1, 1, 1>>

\* lines 76-96
identity_block(input_tensor, kernel_size, filters) ==
    LET xa == BnConv3d(input_tensor, filters[1], Ones, Ones)
        xb == BnConv3d(xa, filters[2], kernel_size, Ones)
        xc == BnConv3d(xb, filters[3], Ones, Ones)
    IN  TfAdd(xc, input_tensor)

\* lines 127-150
conv_block(input_tensor, kernel_size, filters, strides) ==
    LET xa == BnConv3d(input_tensor, filters[1], Ones, strides)
        xb == BnConv3d(xa, filters[2], kernel_size, Ones)
        xc == BnConv3d(xb, filters[3], Ones, Ones)
        shortcut == BnConv3d(input_tensor, filters[3], Ones, strides)
    IN  TfAdd(xc, shortcut)

ConvOp(name, filters, strides) ==
    [op |-> "conv", name |-> name, filters |-> filters, strides |-> strides]
IdentityOp(name, filters) ==
    [op |-> "identity", name |-> name, filters |-> filters, strides |-> Ones]
DropoutOp ==
    [op |-> "dropout", name |-> "dropout", filters |-> <<>>, strides |-> Ones]

\* lines 164-167
Stage1Plan ==
    << ConvOp("conv_1A", <<16, 16, 32>>, <<1, 1, 1>>),
       IdentityOp("identity_1B", <<16, 16, 32>>),
       IdentityOp("identity_1C", <<16, 16, 32>>),
       DropoutOp >>

\* a faulty variant of Stage2Plan: identity_2B is given the width of stage 1
Stage2PlanNarrowIdentity ==
    << ConvOp("conv_2A", <<24, 24, 64>>, <<2, 2, 2>>),
       IdentityOp("identity_2B", <<24, 24, 32>>),
       IdentityOp("identity_2C", <<24, 24, 64>>),
       IdentityOp("identity_2D", <<24, 24, 64>>),
       DropoutOp >>

\* lines 169-173
Stage2Plan ==
    << ConvOp("conv_2A", <<24, 24, 64>>, <<2, 2, 2>>),
       IdentityOp("identity_2B", <<24, 24, 64>>),
       IdentityOp("identity_2C", <<24, 24, 64>>),
       IdentityOp("identity_2D", <<24, 24, 64>>),
       DropoutOp >>

\* lines 175-182
Stage3Plan ==
    << ConvOp("conv_3A", <<48, 48, 128>>, <<2, 2, 2>>),
       IdentityOp("identity_3B", <<48, 48, 128>>),
       IdentityOp("identity_3C", <<48, 48, 128>>),
       IdentityOp("identity_3D", <<48, 48, 128>>),
       IdentityOp("identity_3E", <<48, 48, 128>>),
       IdentityOp("identity_3F", <<48, 48, 128>>),
       DropoutOp >>

\* a faulty variant of Stage4Plan: the last stage built with a round width and
\* one block short
Stage4PlanShort ==
    << ConvOp("conv_4A", <<64, 64, 256>>, <<2, 2, 2>>),
       IdentityOp("identity_4B", <<64, 64, 256>>) >>

\* lines 184-186
Stage4Plan ==
    << ConvOp("conv_4A", <<64, 64, 196>>, <<2, 2, 2>>),
       IdentityOp("identity_4B", <<64, 64, 196>>),
       IdentityOp("identity_4C", <<64, 64, 196>>) >>

\* lines 164-186 of _build, in order
BuildPlan == Stage1Plan \o Stage2Plan \o Stage3Plan \o Stage4Plan

\* dropout probabilities of the configuration, in percent (default 35)
DropoutRates == {35, 50}

\* the model after __init__: the configuration is read, nothing is built
InitNet ==
    /\ Begin([w \in Workers |-> IdleCall], Workers)
    /\ \E n \in 1 .. MaxTargets, d \in DropoutRates :
          net = [NetIdle EXCEPT !.pc = "placeholders", !.num_targets = n,
                                !.dropout_rate = d]

\* lines 154-155
Placeholders ==
    /\ net.pc = "placeholders"
    /\ net' = [net EXCEPT !.input = <<32, 64, 64, 1>>,
                          !.y_true = <<net.num_targets>>,
                          !.pc = "initial_conv"]
    /\ UNCHANGED rvars

\* lines 157-159
InitialConv ==
    /\ net.pc = "initial_conv"
    /\ net' = [net EXCEPT !.x = BnConv3d(net.input, 32, <<5, 3, 3>>, Ones),
                          !.pc = "initial_maxpool"]
    /\ UNCHANGED rvars

\* lines 161-162
InitialMaxPool ==
    /\ net.pc = "initial_maxpool"
    /\ net' = [net EXCEPT !.x = MaxPooling3d(net.x, <<3, 3, 3>>, <<2, 2, 2>>),
                          !.pc = "blocks", !.k = 1]
    /\ UNCHANGED rvars

\* the graph after the block call of plan entry k returned r
AfterBlock(kind, r) ==
    LET e == BuildPlan[net.k]
    IN  IF r.err # ""
        THEN [net EXCEPT !.pc = "failed", !.err = r.err]
        ELSE [net EXCEPT
                !.x = r.shape,
                !.blocks = Append(net.blocks,
                              [kind |-> kind, name |-> e.name, filters |-> e.filters,
                               input |-> net.x, output |-> r.shape]),
                !.k = net.k + 1,
                !.pc = IF net.k = Len(BuildPlan) THEN "flatten" ELSE "blocks"]

\* lines 164, 169, 175, 184
AddConvBlock ==
    /\ net.pc = "blocks"
    /\ BuildPlan[net.k].op = "conv"
    /\ net' = AfterBlock("conv",
                 conv_block(net.x, <<3, 3, 3>>, BuildPlan[net.k].filters,
                            BuildPlan[net.k].strides))
    /\ UNCHANGED rvars

\* lines 165-166, 170-172, 176-181, 185-186
AddIdentityBlock ==
    /\ net.pc = "blocks"
    /\ BuildPlan[net.k].op = "identity"
    /\ net' = AfterBlock("identity",
                 identity_block(net.x, <<3, 3, 3>>, BuildPlan[net.k].filters))
    /\ UNCHANGED rvars

\* lines 167, 173, 182: the tensor keeps its shape
AddDropout ==
    /\ net.pc = "blocks"
    /\ BuildPlan[net.k].op = "dropout"
    /\ net' = [net EXCEPT
                 !.dropouts = Append(net.dropouts,
                                [after |-> Len(net.blocks), rate |-> net.dropout_rate]),
                 !.k = net.k + 1,
                 !.pc = IF net.k = Len(BuildPlan) THEN "flatten" ELSE "blocks"]
    /\ UNCHANGED rvars

\* line 188
Flatten ==
    /\ net.pc = "flatten"
    /\ net' = [net EXCEPT !.z = net.x[1] * net.x[2] * net.x[3] * net.x[4],
                          !.pc = "dense_64"]
    /\ UNCHANGED rvars

\* lines 190-192
Dense64 ==
    /\ net.pc = "dense_64"
    /\ net' = [net EXCEPT !.z = 64, !.pc = "dense_16"]
    /\ UNCHANGED rvars

\* lines 194-196
Dense16 ==
    /\ net.pc = "dense_16"
    /\ net' = [net EXCEPT !.z = 16, !.pc = "dense_out"]
    /\ UNCHANGED rvars

\* lines 198-201
DenseOut ==
    /\ net.pc = "dense_out"
    /\ net' = [net EXCEPT !.z = net.num_targets, !.pc = "store"]
    /\ UNCHANGED rvars

\* lines 203-205
StoreAttrs ==
    /\ net.pc = "store"
    /\ net' = [net EXCEPT !.attrs = {"y", "x", "y_pred"}, !.pc = "built"]
    /\ UNCHANGED rvars

NextNet ==
    \/ Placeholders \/ InitialConv \/ InitialMaxPool
    \/ AddConvBlock \/ AddIdentityBlock \/ AddDropout
    \/ Flatten \/ Dense64 \/ Dense16 \/ DenseOut \/ StoreAttrs

SpecNet == InitNet /\ [][NextNet]_vars

(* ------------------------------- claims -------------------------------- *)

Active(w) == pc[w] # "idle"
Positive(shape) == \A a \in 1 .. Len(shape) : shape[a] > 0
ZeroAxis(shape) == \E a \in 1 .. Len(shape) : shape[a] = 0
ArgsOf(w) ==
    [patient |-> patient[w], out |-> out0[w], res |-> res[w], order |-> order[w]]

\* C1: for a source and a buffer of positive shapes, the buffer has the
\* shape the caller gave it in every state of the call, and the shape
\* returned as the second element of the result is that shape.
C1_BufferShapeKept ==
    \A w \in Workers :
        Active(w) /\ Positive(patient[w].shape) /\ Positive(out0[w].shape)
        => /\ out_patient[w].shape = out0[w].shape
           /\ pc[w] = "done" => ret[w][2] = out0[w].shape

C1_Witness ==
    /\ pc[1] = "done"
    /\ patient[1].shape # out0[1].shape
    /\ ret[1][2] = out0[1].shape

\* C2: the first element of the returned pair is the accumulator that was
\* passed in, and no step of the call changes the accumulator.
C2_AccumulatorPassedThrough ==
    /\ [](\A w \in Workers : pc[w] = "done" => ret[w][1] = res[w])
    /\ [][res' = res]_vars

C2_Witness ==
    /\ pc[1] = "done"
    /\ res[1] = ListAcc
    /\ ret[1][1] = ListAcc

\* C3: a call has no partial success: when it has returned, every element
\* of the buffer has been stored and the buffer holds the interpolated
\* result; until then, and when it has raised, no element has been stored
\* and the buffer holds what it held before the call.
C3_AllOrNothing ==
    \A w \in Workers :
        Active(w)
        => IF pc[w] \in {"return", "done"}
           THEN /\ written[w] = Indices(out0[w].shape)
                /\ out_patient[w] = zoomed[w]
           ELSE /\ written[w] = {}
                /\ out_patient[w] = out0[w]

C3_Witness ==
    /\ pc[1] = "raised"
    /\ order[1] = 6
    /\ Positive(patient[1].shape)
    /\ out_patient[1] = out0[1]

\* C4 as claimed: with a zero-length axis in the source the call raises
\* from the scale computation, so it never gets past line 32 and no
\* Inf/NaN factor reaches the interpolation.
C4_RaisesInScale ==
    \A w \in Workers :
        Active(w) /\ ZeroAxis(patient[w].shape)
        => /\ pc[w] \in {"scale", "raised"}
           /\ pc[w] = "raised" => raised_at[w] = "scale"
           /\ written[w] = {}

\* C4 as amended: with a zero-length axis in the source the scale
\* computation returns a factor holding Inf or NaN, that factor is passed
\* to zoom, and zoom raises (ValueError on the NaN extent, RuntimeError for
\* an unsupported order) before any element of the buffer is stored.
C4_RaisesInZoom ==
    \A w \in Workers :
        Active(w) /\ ZeroAxis(patient[w].shape)
        => /\ pc[w] \in {"scale", "zoom", "raised"}
           /\ pc[w] = "zoom" => \E a \in DOMAIN res_factor[w] : ~IsFinite(res_factor[w][a])
           /\ pc[w] = "raised"
              => /\ raised_at[w] = "zoom"
                 /\ err[w] = IF order[w] \in 0 .. 5 THEN "ValueError" ELSE "RuntimeError"
           /\ written[w] = {}
           /\ out_patient[w] = out0[w]

C4_Witness ==
    /\ pc[1] = "raised"
    /\ ZeroAxis(patient[1].shape)
    /\ err[1] = "ValueError"
    /\ \E a \in DOMAIN res_factor[1] : res_factor[1][a] = Inf

\* C5 as claimed: when the source or the buffer is not of rank 3 the call
\* fails and stores nothing in the buffer.
C5_RankCheckedFirst ==
    \A w \in Workers :
        Active(w) /\ (Len(patient[w].shape) # 3 \/ Len(out0[w].shape) # 3)
        => /\ pc[w] \notin {"return", "done"}
           /\ written[w] = {}

\* C6: under every interleaving of the steps of concurrent calls, a call
\* that has ended left in its buffer, returned and raised what the same
\* call produces when it runs alone.
C6_NoInterference ==
    \A w \in Workers :
        pc[w] \in {"done", "raised"}
        => [pc |-> pc[w], err |-> err[w], out |-> out_patient[w], ret |-> ret[w]]
           = RunAlone(ArgsOf(w))

C6_Witness ==
    /\ pc[1] = "done"
    /\ pc[2] = "done"
    /\ out_patient[1] # out_patient[2]
    /\ out_patient[1] # out0[1]

StageStart == <<1, 4, 8, 14>>
StageBlocks == <<3, 4, 6, 3>>
StageWidth == <<32, 64, 128, 196>>

\* the blocks are four stages, each one conv_block followed by identity
\* blocks only, of 3, 4, 6 and 3 blocks and of widths 32, 64, 128 and 196
FourStages(b) ==
    /\ Len(b) = 16
    /\ \A s \in 1 .. 4 :
          /\ b[StageStart[s]].kind = "conv"
          /\ \A j \in 1 .. StageBlocks[s] - 1 : b[StageStart[s] + j].kind = "identity"
          /\ \A j \in 0 .. StageBlocks[s] - 1 : b[StageStart[s] + j].output[4] = StageWidth[s]

\* C9 as claimed: the build succeeds, the built graph has the four stages,
\* and the projection block of every stage changes the channel count of
\* its input.
C9_EveryProjectionChangesWidth ==
    /\ net.pc # "failed"
    /\ net.pc = "built"
       => /\ FourStages(net.blocks)
          /\ \A s \in 1 .. 4 :
                net.blocks[StageStart[s]].input[4] # net.blocks[StageStart[s]].output[4]

\* C9 as amended: the build succeeds, the built graph has the four stages,
\* the projection blocks of stages 2, 3 and 4 change the channel count
\* (32 to 64, 64 to 128, 128 to 196), and the projection block of stage 1
\* receives 32 channels and returns 32.
C9_StagesAndWidths ==
    /\ net.pc # "failed"
    /\ net.pc = "built"
       => /\ FourStages(net.blocks)
          /\ \A s \in 2 .. 4 :
                /\ net.blocks[StageStart[s]].input[4] = StageWidth[s - 1]
                /\ net.blocks[StageStart[s]].output[4] = StageWidth[s]
          /\ net.blocks[1].input[4] = 32
          /\ net.blocks[1].output[4] = 32

C9_Witness ==
    /\ net.pc = "built"
    /\ Len(net.blocks) = 16
    /\ net.blocks[14].output[4] = 196

\* C10: whenever _build is about to call identity_block, the third filter
\* count equals the channel count of the tensor fed in, which is the
\* output of the preceding block; the add never fails, and every identity
\* block built returns the channel count it received.
C10_IdentityWidthMatches ==
    /\ net.pc # "failed"
    /\ net.pc = "blocks" /\ BuildPlan[net.k].op = "identity"
       => /\ BuildPlan[net.k].filters[3] = net.x[4]
          /\ net.x = net.blocks[Len(net.blocks)].output
    /\ \A k \in 1 .. Len(net.blocks) :
          net.blocks[k].kind = "identity"
          => /\ net.blocks[k].filters[3] = net.blocks[k].input[4]
             /\ net.blocks[k].output = net.blocks[k].input
             /\ net.blocks[k].input = net.blocks[k - 1].output

C10_Witness ==
    /\ net.pc = "blocks"
    /\ BuildPlan[net.k].name = "identity_3F"
    /\ net.x[4] = 128

=============================================================================
